---- MODULE Spec2Model ----
(***************************************************************************)
(* A model of the nexus reconciliation core (src/src/engine.js) and of the *)
(* command handlers that drive it (src/unnamed/part_000, the CLI module).  *)
(*                                                                         *)
(* JavaScript values are represented as follows.                           *)
(*   - a string is a TLA+ string; template literals and path joins are     *)
(*     string concatenation (\o), so two different inputs that produce the *)
(*     same text are the same key, as in the program;                      *)
(*   - null and undefined are the strings Null and Undefined, which no     *)
(*     pool of names contains;                                             *)
(*   - an object with optional fields is a record whose DOMAIN holds the   *)
(*     fields that are present;                                            *)
(*   - an object used as a mapping whose enumeration order the code relies *)
(*     on (manifest.intents, manifest.services, desired.services,          *)
(*     consumes.env, service.states) is the sequence of its <<key, value>> *)
(*     pairs in declaration order, with distinct keys; ObjectKeys and      *)
(*     ObjectEntries give the order in which JavaScript enumerates it;     *)
(*   - the persisted observation map is a function from its keys.          *)
(* Names range over pools of strings none of which is a member of          *)
(* Object.prototype, and the values stored under a declared intent or      *)
(* service are records, so `obj[name]` is truthy exactly when name is an   *)
(* own key of obj.                                                         *)
(***************************************************************************)
EXTENDS Integers, Sequences, FiniteSets, TLC

VARIABLES
  pc,            \* pure-function specifications: "input" before the call, "done" after
  arg,           \* pure-function specifications: the arguments of the call
  ret,           \* pure-function specifications: what the call returned or threw
  manifestFile,  \* the manifest document on disk (its raw text), or NoFile
  files,         \* the file system below the project root: path -> kind
  ports,         \* the TCP ports that have a listener
  stateFile,     \* the content of .nexus/state.json, or NoFile
  last,          \* what the most recent CLI invocation printed, until the world changes
  prev,          \* the inputs of the dev/sync invocation that wrote the state file
  settled,       \* checkPort: the `settled` flag of the running probe
  promise,       \* checkPort: the promise the probe returned
  socket,        \* checkPort: the net.Socket of the probe
  fired,         \* checkPort: the socket events emitted so far, in order
  resolveCalls   \* checkPort: how often the promise's resolve was called

vars == <<pc, arg, ret, manifestFile, files, ports, stateFile, last, prev,
          settled, promise, socket, fired, resolveCalls>>

pureVars == <<pc, arg, ret>>

cliVars == <<manifestFile, files, ports, stateFile, last, prev>>

probeVars == <<settled, promise, socket, fired, resolveCalls>>

----------------------------------------------------------------------------
(* JavaScript values *)

Null == "<null>"

Undefined == "<undefined>"

NoFile == "<no file>"

\* A string, null or undefined in a boolean position.
Truthy(v) == v \notin {Null, Undefined, ""}

Has(obj, field) == field \in DOMAIN obj

\* obj.field for a field holding a string (undefined when absent).
Field(obj, field) == IF Has(obj, field) THEN obj[field] ELSE Undefined

Return(v) == [threw |-> FALSE, value |-> v]

Throw(kind, detail) == [threw |-> TRUE, error |-> kind, detail |-> detail]

Range(s) == {s[i] : i \in DOMAIN s}

\* The sequences over S of length at most n.
SeqUpTo(S, n) == UNION {[1..k -> S] : k \in 0..n}

\* The sequences over S of length at most n without a repeated element.
DistinctSeqUpTo(S, n) == {s \in SeqUpTo(S, n) : \A i, j \in DOMAIN s : i # j => s[i] # s[j]}

----------------------------------------------------------------------------
(* Objects used as ordered mappings *)

\* The names of the pools that are canonical array indices ("1", "2"):
\* JavaScript enumerates such keys first, in ascending numeric order,
\* whatever the order they were inserted in.
IndexKeys == {"1", "2"}

IndexValue(k) == IF k = "1" THEN 1 ELSE 2

OwnKeys(obj) == {obj[i][1] : i \in DOMAIN obj}

HasOwn(obj, key) == key \in OwnKeys(obj)

\* obj[key] for an own key.
Get(obj, key) == obj[CHOOSE i \in DOMAIN obj : obj[i][1] = key][2]

\* s with x inserted before the first entry whose index key is larger.
RECURSIVE InsertIndexKey(_, _)
InsertIndexKey(s, x) ==
  IF s = <<>> THEN <<x>>
  ELSE IF IndexValue(x[1]) < IndexValue(s[1][1]) THEN <<x>> \o s
  ELSE <<s[1]>> \o InsertIndexKey(Tail(s), x)

RECURSIVE SortIndexKeys(_)
SortIndexKeys(s) ==
  IF s = <<>> THEN <<>> ELSE InsertIndexKey(SortIndexKeys(Tail(s)), s[1])

\* Object.entries(obj): integer-like keys ascending, then the other keys in
\* insertion (declaration) order.
ObjectEntries(obj) ==
  SortIndexKeys(SelectSeq(obj, LAMBDA e : e[1] \in IndexKeys))
    \o SelectSeq(obj, LAMBDA e : e[1] \notin IndexKeys)

\* Object.keys(obj)
ObjectKeys(obj) == [i \in DOMAIN obj |-> ObjectEntries(obj)[i][1]]

\* The keys of obj in the order the document declares them.
DeclaredKeys(obj) == [i \in DOMAIN obj |-> obj[i][1]]

----------------------------------------------------------------------------
(* Hashing *)

\* sha256 over the raw text: a digest that differs for different texts of
\* the pools (SHA-256 has no known collision), with the code's prefix.
hashString(value) == "sha256:" \o value

hashFile(content) == "sha256:" \o content

----------------------------------------------------------------------------
(* resolveIntentName *)

resolveIntentName(manifest, intentName) ==
  LET intents == ObjectKeys(manifest.intents) IN
  IF Truthy(intentName) THEN
    IF ~HasOwn(manifest.intents, intentName)
      THEN Throw("IntentNotFound", intentName)
      ELSE Return(intentName)
  ELSE IF Truthy(Field(manifest, "defaultIntent"))
          /\ HasOwn(manifest.intents, manifest.defaultIntent)
    THEN Return(manifest.defaultIntent)
  ELSE IF HasOwn(manifest.intents, "feature") THEN Return("feature")
  ELSE IF Len(intents) > 0 THEN Return(intents[1])
  ELSE Throw("NoIntents", "")

----------------------------------------------------------------------------
(* buildPlan *)

PlanItem(serviceName, stateId, state, service) ==
  [serviceName |-> serviceName, stateId |-> stateId, type |-> state.type,
   config |-> state, service |-> service]

\* `service.states && service.states[stateId]` is truthy
StateDeclared(service, stateId) ==
  Has(service, "states") /\ HasOwn(service.states, stateId)

\* A mutant of PlanStates: a state that is absent or has no type is skipped
\* instead of ending the plan with an error.
RECURSIVE PlanStatesSkipping(_, _, _, _)
PlanStatesSkipping(serviceName, service, stateIds, plan) ==
  IF stateIds = <<>> THEN Return(plan)
  ELSE LET stateId == Head(stateIds) IN
    IF ~StateDeclared(service, stateId)
       \/ ~Truthy(Field(Get(service.states, stateId), "type"))
    THEN PlanStatesSkipping(serviceName, service, Tail(stateIds), plan)
    ELSE PlanStatesSkipping(serviceName, service, Tail(stateIds),
           Append(plan, PlanItem(serviceName, stateId,
                                 Get(service.states, stateId), service)))

\* The inner loop of buildPlan: one plan item per listed state ID, in order.
RECURSIVE PlanStates(_, _, _, _)
PlanStates(serviceName, service, stateIds, plan) ==
  IF stateIds = <<>> THEN Return(plan)
  ELSE LET stateId == Head(stateIds) IN
    IF ~StateDeclared(service, stateId)
       \/ ~Truthy(Field(Get(service.states, stateId), "type"))
    THEN Throw("StateNotFound", serviceName \o "." \o stateId)
    ELSE PlanStates(serviceName, service, Tail(stateIds),
           Append(plan, PlanItem(serviceName, stateId,
                                 Get(service.states, stateId), service)))

\* The outer loop of buildPlan over Object.entries(intent.desired.services).
RECURSIVE PlanServices(_, _, _)
PlanServices(manifest, entries, plan) ==
  IF entries = <<>> THEN Return(plan)
  ELSE LET serviceName == Head(entries)[1]
           desired == Head(entries)[2]
       IN
    IF ~HasOwn(manifest.services, serviceName)
    THEN Throw("ServiceNotFound", serviceName)
    ELSE LET service == Get(manifest.services, serviceName)
             stateIds == IF Has(desired, "states") THEN desired.states ELSE <<>>
             inner == PlanStates(serviceName, service, stateIds, plan)
         IN IF inner.threw THEN inner
            ELSE PlanServices(manifest, Tail(entries), inner.value)

buildPlan(manifest, intentName) ==
  IF ~HasOwn(manifest.intents, intentName)
     \/ ~Has(Get(manifest.intents, intentName), "desired")
     \/ ~Has(Get(manifest.intents, intentName).desired, "services")
  THEN Throw("NoDesiredServices", intentName)
  ELSE PlanServices(manifest,
         ObjectEntries(Get(manifest.intents, intentName).desired.services), <<>>)

----------------------------------------------------------------------------
(* buildGraph *)
(* A binding source (`binding.from`) is the sequence of the dot-free pieces *)
(* of its text: <<"c", "X">> is "c.X" and <<"plain">> is "plain". So        *)
(* from.includes(".") is Len(from) > 1 and from.split(".")[0] is from[1].   *)

addEdge(acc, from, to, reason) ==
  LET key == from \o "->" \o to \o ":" \o reason IN
  IF key \in acc.seen THEN acc
  ELSE [edges |-> Append(acc.edges, [from |-> from, to |-> to, reason |-> reason]),
        seen |-> acc.seen \cup {key}]

RECURSIVE GraphRequires(_, _, _)
GraphRequires(acc, serviceName, requires) ==
  IF requires = <<>> THEN acc
  ELSE GraphRequires(addEdge(acc, serviceName, Head(requires), "requires"),
                     serviceName, Tail(requires))

RECURSIVE GraphConsumes(_, _, _)
GraphConsumes(acc, serviceName, entries) ==
  IF entries = <<>> THEN acc
  ELSE LET varName == Head(entries)[1]
           binding == Head(entries)[2]
       IN
    IF Has(binding, "from") /\ Len(binding.from) > 1
    THEN GraphConsumes(addEdge(acc, serviceName, binding.from[1], "consumes " \o varName),
                       serviceName, Tail(entries))
    ELSE GraphConsumes(acc, serviceName, Tail(entries))

RECURSIVE GraphServices(_, _)
GraphServices(acc, entries) ==
  IF entries = <<>> THEN acc
  ELSE LET serviceName == Head(entries)[1]
           service == Head(entries)[2]
           requires == IF Has(service, "requires") /\ Has(service.requires, "services")
                       THEN service.requires.services ELSE <<>>
           consumes == IF Has(service, "consumes") /\ Has(service.consumes, "env")
                       THEN service.consumes.env ELSE <<>>
       IN GraphServices(
            GraphConsumes(GraphRequires(acc, serviceName, requires),
                          serviceName, ObjectEntries(consumes)),
            Tail(entries))

buildGraph(manifest) ==
  GraphServices([edges |-> <<>>, seen |-> {}], ObjectEntries(manifest.services)).edges

----------------------------------------------------------------------------
(* observeState and validatePlan *)
(* The observed environment env is [files, ports]: files maps a path to     *)
(* "absent", "dir" (a directory) or the content of a regular file, and      *)
(* ports holds the ports on which checkPort's connect callback fires before *)
(* its error and timeout callbacks. A port of the configuration is the text *)
(* the manifest gives; NumberOf is Number(port).                            *)

\* path.resolve(base, rel) and path.join(base, rel) for the relative paths
\* of the pools (no "..", no leading "/").
pathResolve(base, rel) == IF rel = "." THEN base ELSE base \o "/" \o rel

FileKind(env, path) == IF path \in DOMAIN env.files THEN env.files[path] ELSE "absent"

\* fs.existsSync: true for a regular file and for a directory
existsSync(env, path) == FileKind(env, path) # "absent"

\* Number(item.config.port)
NumberOf(port) ==
  CASE port = "4001" -> [finite |-> TRUE, n |-> 4001]
    [] port = "70000" -> [finite |-> TRUE, n |-> 70000]
    [] OTHER -> [finite |-> FALSE]

\* The tail shared by package.deps and db.schema once the path exists:
\* hashFile reads it, and reading a directory throws EISDIR.
observeFile(env, path, found) ==
  IF FileKind(env, path) = "dir" THEN Throw("EISDIR", path) ELSE Return(found)

observeState(item, projectRoot, env) ==
  LET serviceRoot == IF Truthy(Field(item.service, "root")) THEN item.service.root ELSE "."
      resolvedRoot == pathResolve(projectRoot, serviceRoot)
      type == item.type
  IN
  IF type = "package.deps" THEN
    LET lockfile == IF Truthy(Field(item.config, "lockfile"))
                    THEN item.config.lockfile ELSE "package-lock.json"
        lockfilePath == pathResolve(resolvedRoot, lockfile)
    IN IF ~existsSync(env, lockfilePath)
       THEN Return([status |-> "missing",
                    evidence |-> [lockfile |-> lockfilePath, exists |-> FALSE]])
       ELSE observeFile(env, lockfilePath,
              [status |-> "healthy",
               evidence |-> [lockfile |-> lockfilePath,
                             checksum |-> hashFile(FileKind(env, lockfilePath))]])
  ELSE IF type = "db.schema" THEN
    IF ~Truthy(Field(item.config, "source"))
    THEN Return([status |-> "unknown", evidence |-> [reason |-> "no source defined"]])
    ELSE LET schemaPath == pathResolve(resolvedRoot, item.config.source)
             exists == existsSync(env, schemaPath)
         IN IF ~exists
            THEN Return([status |-> "missing",
                         evidence |-> [source |-> schemaPath, exists |-> FALSE,
                                       checksum |-> Undefined]])
            ELSE observeFile(env, schemaPath,
                   [status |-> "healthy",
                    evidence |-> [source |-> schemaPath, exists |-> TRUE,
                                  checksum |-> hashFile(FileKind(env, schemaPath))]])
  ELSE IF type = "env.export" THEN
    LET keys == IF Has(item.config, "keys") THEN item.config.keys ELSE <<>> IN
    Return([status |-> IF Len(keys) > 0 THEN "healthy" ELSE "missing",
            evidence |-> [keys |-> keys]])
  ELSE IF type = "env.inherit" THEN
    LET from == Field(item.config, "from") IN
    Return([status |-> IF Truthy(from) THEN "healthy" ELSE "missing",
            evidence |-> [from |-> from]])
  ELSE IF type = "process.http" THEN
    LET port == NumberOf(Field(item.config, "port"))
        host == IF Truthy(Field(item.config, "host")) THEN item.config.host ELSE "127.0.0.1"
    IN IF ~port.finite
       THEN Return([status |-> "unknown", evidence |-> [reason |-> "invalid port"]])
       ELSE IF port.n \notin 0..65535  \* socket.connect validates the port
       THEN Throw("ERR_SOCKET_BAD_PORT", ToString(port.n))
       ELSE LET isOpen == port.n \in env.ports IN
            Return([status |-> IF isOpen THEN "healthy" ELSE "missing",
                    evidence |-> [host |-> host, port |-> port.n, open |-> isOpen]])
  ELSE Return([status |-> "unknown", evidence |-> [type |-> type]])

\* validatePlan: the items are observed in order; the first observation
\* that throws ends the call.
RECURSIVE ValidateFrom(_, _, _, _)
ValidateFrom(plan, projectRoot, env, results) ==
  IF plan = <<>> THEN Return(results)
  ELSE LET observation == observeState(Head(plan), projectRoot, env) IN
    IF observation.threw THEN observation
    ELSE ValidateFrom(Tail(plan), projectRoot, env,
           Append(results, [serviceName |-> Head(plan).serviceName,
                            stateId |-> Head(plan).stateId,
                            type |-> Head(plan).type,
                            config |-> Head(plan).config,
                            service |-> Head(plan).service,
                            observation |-> observation.value]))

validatePlan(plan, projectRoot, env) == ValidateFrom(plan, projectRoot, env, <<>>)

----------------------------------------------------------------------------
(* The state store: loadState, writeState, updateState *)
(* The state file is [exists |-> FALSE] or [exists |-> TRUE, json |-> d],   *)
(* d the document JSON.stringify wrote, or [exists |-> TRUE, raw |-> t] for *)
(* a text t that JSON.parse rejects. A persisted state is a record          *)
(* [manifestHash, observations], observations a function from keys.         *)

NoStateFile == [exists |-> FALSE]

\* A state file whose content is not JSON (truncated or edited by hand).
CorruptStateFile == [exists |-> TRUE, raw |-> "{ not json"]

\* The fields of the model that can hold undefined: JSON.stringify leaves
\* a field whose value is undefined out of the document.
MaybeUndefined == {"checksum", "from", "lastAppliedAt"}

JsonObject(obj) ==
  [f \in {g \in DOMAIN obj : ~(g \in MaybeUndefined /\ obj[g] = Undefined)} |-> obj[f]]

\* JSON.parse(JSON.stringify(state, null, 2))
JsonState(state) ==
  [manifestHash |-> state.manifestHash,
   observations |->
     [k \in DOMAIN state.observations |->
        JsonObject([state.observations[k] EXCEPT
                      !.evidence = JsonObject(state.observations[k].evidence)])]]

loadState(file) ==
  IF ~file.exists THEN Return([manifestHash |-> Null, observations |-> <<>>])
  ELSE IF Has(file, "json") THEN Return(file.json)
  ELSE Throw("CorruptState", file.raw)

writeState(state) == [exists |-> TRUE, json |-> JsonState(state)]

\* new Date().toISOString() at clock reading t
toISOString(t) == "T" \o ToString(t)

\* `existingState.observations ? existingState.observations[key] : null`
\* is truthy
HasPrevious(existingState, key) ==
  Has(existingState, "observations") /\ key \in DOMAIN existingState.observations

\* A mutant of NextObservation: every run stamps lastAppliedAt as well.
NextObservationStamped(existingState, result, key, now) ==
  [status |-> result.observation.status,
   evidence |-> result.observation.evidence,
   lastValidatedAt |-> now,
   lastAppliedAt |-> now]

\* A mutant of NextObservation: a record that existed before keeps nothing
\* of it (lastAppliedAt starts from null on every run).
NextObservationFresh(existingState, result, key, now) ==
  [status |-> result.observation.status,
   evidence |-> result.observation.evidence,
   lastValidatedAt |-> now,
   lastAppliedAt |-> Null]

\* A mutant of NextObservation: a record that is observed again counts as
\* applied at the time of the run.
NextObservationReapplied(existingState, result, key, now) ==
  [status |-> result.observation.status,
   evidence |-> result.observation.evidence,
   lastValidatedAt |-> now,
   lastAppliedAt |-> IF HasPrevious(existingState, key) THEN now ELSE Null]

\* The record updateState stores under key for one result.
NextObservation(existingState, result, key, now) ==
  [status |-> result.observation.status,
   evidence |-> result.observation.evidence,
   lastValidatedAt |-> now,
   lastAppliedAt |-> IF HasPrevious(existingState, key)
                     THEN Field(existingState.observations[key], "lastAppliedAt")
                     ELSE Null]

\* A mutant of StartObservations: the new map starts from the previous one
\* (a merge instead of a replacement).
StartObservationsMerged(existingState) ==
  IF Has(existingState, "observations") THEN existingState.observations ELSE <<>>

\* `observations: {}`: the map updateState starts from.
StartObservations(existingState) == <<>>

RECURSIVE UpdateFrom(_, _, _, _)
UpdateFrom(existingState, results, now, observations) ==
  IF results = <<>> THEN observations
  ELSE LET result == Head(results)
           key == result.serviceName \o ":" \o result.stateId
           record == NextObservation(existingState, result, key, now)
       IN UpdateFrom(existingState, Tail(results), now,
            [k \in DOMAIN observations \cup {key} |->
               IF k = key THEN record ELSE observations[k]])

updateState(existingState, results, manifestHash, now) ==
  [manifestHash |-> manifestHash,
   observations |-> UpdateFrom(existingState, results, now,
                               StartObservations(existingState))]

\* A mutant of SaveState: the state of this run is written before the
\* previous state is loaded, so the file is written even when loading fails.
SaveStateFirst(file, results, manifestHash, now) ==
  LET state == loadState(file)
      fresh == updateState([manifestHash |-> Null, observations |-> <<>>],
                           results, manifestHash, now)
  IN IF state.threw
     THEN [threw |-> TRUE, error |-> state.error, file |-> writeState(fresh)]
     ELSE [threw |-> FALSE,
           file |-> writeState(updateState(state.value, results, manifestHash, now))]

\* loadState, updateState, writeState as handleLifecycle chains them: the
\* outcome and the state file left behind.
SaveState(file, results, manifestHash, now) ==
  LET state == loadState(file) IN
  IF state.threw
  THEN [threw |-> TRUE, error |-> state.error, file |-> file]
  ELSE [threw |-> FALSE,
        file |-> writeState(updateState(state.value, results, manifestHash, now))]

----------------------------------------------------------------------------
(* summarizeResults *)

CountStatus(results, wanted) ==
  Cardinality({i \in DOMAIN results : results[i].observation.status = wanted})

summarizeResults(results) ==
  [healthy |-> CountStatus(results, "healthy"),
   missing |-> CountStatus(results, "missing"),
   unknown |-> Cardinality({i \in DOMAIN results :
                              results[i].observation.status \notin {"healthy", "missing"}}),
   total |-> Len(results)]

----------------------------------------------------------------------------
(* loadManifest *)
(* A manifest document is its raw text; yamlLoad is what yaml.load makes of *)
(* the texts of the pool.                                                   *)

ApiService ==
  [root |-> "services/api",
   states |-> << <<"deps", [type |-> "package.deps", lockfile |-> "pnpm-lock.yaml"]>>,
                 <<"schema", [type |-> "db.schema", source |-> "schema.prisma"]>>,
                 <<"run", [type |-> "process.http", port |-> "4001"]>> >>]

WebService ==
  [requires |-> [services |-> <<"api">>],
   consumes |-> [env |-> << <<"API_URL", [from |-> <<"api", "API_URL">>]>> >>],
   states |-> << <<"env", [type |-> "env.inherit", from |-> "api"]>> >>]

Intent(services) == [desired |-> [services |-> services]]

SlimIntent == Intent(<< <<"api", [states |-> <<"deps">>]>> >>)

BaseManifest ==
  [intents |-> << <<"feature", Intent(<< <<"api", [states |-> <<"deps", "schema", "run">>]>>,
                                         <<"web", [states |-> <<"env">>]>> >>)>>,
                  <<"slim", SlimIntent>> >>,
   services |-> << <<"api", ApiService>>, <<"web", WebService>> >>]

yamlLoad(raw) ==
  CASE raw \in {"doc-base", "doc-base-reformatted"} -> [object |-> TRUE, value |-> BaseManifest]
    [] raw = "doc-repeat" ->
         [object |-> TRUE,
          value |-> [BaseManifest EXCEPT !.intents =
                       << <<"feature", Intent(<< <<"api", [states |-> <<"deps", "run", "deps">>]>> >>)>>,
                          <<"slim", SlimIntent>> >>]]
    [] raw = "doc-ghost" ->
         [object |-> TRUE,
          value |-> [BaseManifest EXCEPT !.intents =
                       << <<"feature", Intent(<< <<"api", [states |-> <<"deps">>]>>,
                                                 <<"ghost", [states |-> <<"deps">>]>> >>)>> >>]]
    [] raw = "doc-port" ->
         [object |-> TRUE,
          value |-> [BaseManifest EXCEPT !.services =
                       << <<"api", [ApiService EXCEPT !.states =
                                      << <<"deps", [type |-> "package.deps",
                                                    lockfile |-> "pnpm-lock.yaml"]>>,
                                         <<"schema", [type |-> "db.schema"]>>,
                                         <<"run", [type |-> "process.http",
                                                   port |-> "70000"]>> >>]>>,
                          <<"web", WebService>> >>]]
    [] raw = "doc-no-intents" ->
         [object |-> TRUE, value |-> [services |-> << <<"api", ApiService>> >>]]
    [] OTHER -> [object |-> FALSE]

ManifestTexts ==
  {"doc-base", "doc-base-reformatted", "doc-repeat", "doc-ghost", "doc-port",
   "doc-no-intents", "doc-scalar"}

loadManifest(file) ==
  IF file = NoFile THEN Throw("NotFound", "nexus.yaml")
  ELSE LET loaded == yamlLoad(file) IN
    IF ~loaded.object THEN Throw("ParseError", "expected a YAML object")
    ELSE IF ~Has(loaded.value, "services") \/ ~Has(loaded.value, "intents")
    THEN Throw("SchemaError", "missing services or intents")
    ELSE Return([manifest |-> loaded.value,
                 projectRoot |-> "/proj",
                 manifestHash |-> hashString(file)])

----------------------------------------------------------------------------
(* The command handlers of the CLI *)

\* A mutant of StateStale: the stored hash is compared without first
\* testing that there is one.
StateStaleUnguarded(state, manifestHash) == state.manifestHash # manifestHash

\* `state.manifestHash && state.manifestHash !== manifestHash` in a boolean
\* position (the null of a state without a hash is falsy).
StateStale(state, manifestHash) ==
  Truthy(state.manifestHash) /\ state.manifestHash # manifestHash

\* load -> resolve -> plan -> observe, shared by status, dev and sync: the
\* first step that throws ends the invocation.
Prepare(file, intent, env) ==
  LET loaded == loadManifest(file) IN
  IF loaded.threw THEN loaded ELSE
  LET resolved == resolveIntentName(loaded.value.manifest, intent) IN
  IF resolved.threw THEN resolved ELSE
  LET plan == buildPlan(loaded.value.manifest, resolved.value) IN
  IF plan.threw THEN plan ELSE
  LET results == validatePlan(plan.value, loaded.value.projectRoot, env) IN
  IF results.threw THEN results ELSE
  Return([manifestHash |-> loaded.value.manifestHash,
          intentName |-> resolved.value,
          plan |-> plan.value,
          results |-> results.value,
          summary |-> summarizeResults(results.value)])

\* results.map(formatResultJson)
formatResultJson(results) ==
  [i \in DOMAIN results |->
     [service |-> results[i].serviceName, state |-> results[i].stateId,
      type |-> results[i].type, status |-> results[i].observation.status,
      evidence |-> results[i].observation.evidence]]

\* What an invocation that ended with an uncaught error leaves behind:
\* bin/nexus.js prints the message and exits with code 1.
Failed(cmd, intent, error) ==
  [cmd |-> cmd, intent |-> intent, outcome |-> error, exitCode |-> 1]

----------------------------------------------------------------------------
(* The values the CLI variables hold in the pure-function specifications,  *)
(* and the values the call variables hold in the CLI specification.        *)

NoCall == [kind |-> "none"]

\* No probe is running.
ProbeIdle ==
  /\ settled = FALSE
  /\ promise = [state |-> "none"]
  /\ socket = [state |-> "none"]
  /\ fired = <<>>
  /\ resolveCalls = 0

CliIdle ==
  /\ manifestFile = NoFile
  /\ files = <<>>
  /\ ports = {}
  /\ stateFile = NoStateFile
  /\ last = [cmd |-> "none"]
  /\ prev = [run |-> FALSE]
  /\ ProbeIdle

----------------------------------------------------------------------------
(* SpecResolve: resolveIntentName applied to bounded manifests *)

MaxIntents == 2

IntentNames == {"feature", "dev", "1", "2"}

DefaultIntents == {"dev", "ghost"}

RequestedIntents == {Null, "feature", "dev", "ghost"}

EmptyIntent == [desired |-> [services |-> <<>>]]

ResolveManifests ==
  LET decls == {[i \in DOMAIN names |-> <<names[i], EmptyIntent>>] :
                  names \in DistinctSeqUpTo(IntentNames, MaxIntents)}
  IN  {[intents |-> d, services |-> <<>>] : d \in decls}
        \cup {[intents |-> d, services |-> <<>>, defaultIntent |-> n] :
                d \in decls, n \in DefaultIntents}

InitResolve ==
  /\ pc = "input"
  /\ arg \in {[kind |-> "resolveIntentName", manifest |-> m, intentName |-> n] :
                m \in ResolveManifests, n \in RequestedIntents}
  /\ ret = NoCall
  /\ CliIdle

CallResolveIntentName ==
  /\ pc = "input"
  /\ arg.kind = "resolveIntentName"
  /\ pc' = "done"
  /\ ret' = resolveIntentName(arg.manifest, arg.intentName)
  /\ UNCHANGED <<arg, cliVars, probeVars>>

SpecResolve == InitResolve /\ [][CallResolveIntentName]_vars

\* What the specification promises for resolveIntentName: the requested
\* name when it is declared and IntentNotFound when it is not; with no
\* requested name the declared defaultIntent, else feature, else the first
\* intent the manifest declares, else NoIntents.
PromisedIntent(manifest, intentName) ==
  LET declared == DeclaredKeys(manifest.intents) IN
  IF intentName # Null THEN
    IF intentName \in Range(declared) THEN Return(intentName)
    ELSE Throw("IntentNotFound", intentName)
  ELSE IF Has(manifest, "defaultIntent") /\ manifest.defaultIntent \in Range(declared)
    THEN Return(manifest.defaultIntent)
  ELSE IF "feature" \in Range(declared) THEN Return("feature")
  ELSE IF Len(declared) > 0 THEN Return(declared[1])
  ELSE Throw("NoIntents", "")

\* C8: resolveIntentName returns the requested intent if declared and fails
\* with IntentNotFound otherwise; with no name it returns defaultIntent,
\* else feature, else the first declared intent in declaration order, else
\* fails with NoIntents; a resolved name is always a key of manifest.intents.
C8_IntentResolution ==
  (pc = "done" /\ arg.kind = "resolveIntentName") =>
    /\ ret = PromisedIntent(arg.manifest, arg.intentName)
    /\ ~ret.threw => HasOwn(arg.manifest.intents, ret.value)

\* C8 without its declaration-order clause: everything the claim says except
\* which intent is "first" when the fallback reaches the key list.
C8_ExceptFirstDeclared ==
  (pc = "done" /\ arg.kind = "resolveIntentName") =>
    /\ ~ret.threw => HasOwn(arg.manifest.intents, ret.value)
    /\ (ret = PromisedIntent(arg.manifest, arg.intentName)
        \/ (/\ arg.intentName = Null
            /\ ~ret.threw
            /\ ret.value = ObjectKeys(arg.manifest.intents)[1]
            /\ ret.value \in IndexKeys))

----------------------------------------------------------------------------
(* SpecPlan: buildPlan applied to bounded intents *)

MaxDesiredServices == 2

MaxStates == 2

\* A state definition without a type, and typed ones.
PlanServicesDeclared ==
  << <<"api", [root |-> "services/api",
               states |-> << <<"deps", [type |-> "package.deps"]>>,
                             <<"typeless", [provider |-> "postgres"]>> >>]>>,
     <<"web", [states |-> << <<"deps", [type |-> "package.deps"]>> >>]>>,
     <<"bare", [root |-> "bare"]>> >>

DesiredServiceNames == {"api", "bare", "ghost"}

DesiredStateIds == {"deps", "typeless"}

DesiredEntries ==
  {[states |-> ids] : ids \in SeqUpTo(DesiredStateIds, MaxStates)} \cup {[scope |-> "all"]}

DesiredMaps ==
  UNION {{[i \in DOMAIN names |-> <<names[i], e[i]>>] : e \in [DOMAIN names -> DesiredEntries]} :
           names \in DistinctSeqUpTo(DesiredServiceNames, MaxDesiredServices)}

PlanIntents ==
  {[desired |-> [services |-> d]] : d \in DesiredMaps}
    \cup {[scope |-> "none"], [desired |-> [scope |-> "none"]]}

InitPlan ==
  /\ pc = "input"
  /\ arg \in {[kind |-> "buildPlan",
               manifest |-> [intents |-> << <<"feature", i>> >>,
                             services |-> PlanServicesDeclared],
               intentName |-> "feature"] : i \in PlanIntents}
  /\ ret = NoCall
  /\ CliIdle

CallBuildPlan ==
  /\ pc = "input"
  /\ arg.kind = "buildPlan"
  /\ pc' = "done"
  /\ ret' = buildPlan(arg.manifest, arg.intentName)
  /\ UNCHANGED <<arg, cliVars, probeVars>>

SpecPlan == InitPlan /\ [][CallBuildPlan]_vars

\* The intent's desired.services mapping, when the intent has one.
HasDesiredServices(a) ==
  /\ HasOwn(a.manifest.intents, a.intentName)
  /\ Has(Get(a.manifest.intents, a.intentName), "desired")
  /\ Has(Get(a.manifest.intents, a.intentName).desired, "services")

DesiredServices(a) == Get(a.manifest.intents, a.intentName).desired.services

ListedStates(desired) == IF Has(desired, "states") THEN desired.states ELSE <<>>

ServiceExists(manifest, serviceName) ==
  \E i \in DOMAIN manifest.services : manifest.services[i][1] = serviceName

\* The state exists on the service and declares a non-empty type.
StateExists(manifest, serviceName, stateId) ==
  \E i \in DOMAIN manifest.services :
    /\ manifest.services[i][1] = serviceName
    /\ "states" \in DOMAIN manifest.services[i][2]
    /\ \E j \in DOMAIN manifest.services[i][2].states :
         /\ manifest.services[i][2].states[j][1] = stateId
         /\ "type" \in DOMAIN manifest.services[i][2].states[j][2]
         /\ manifest.services[i][2].states[j][2].type # ""

\* What buildPlan has to resolve, in the order it meets it: each desired
\* service, followed by the state IDs listed for it.
RECURSIVE Obligations(_)
Obligations(entries) ==
  IF entries = <<>> THEN <<>>
  ELSE <<[kind |-> "service", serviceName |-> Head(entries)[1]]>>
       \o [i \in DOMAIN ListedStates(Head(entries)[2]) |->
             [kind |-> "state", serviceName |-> Head(entries)[1],
              stateId |-> ListedStates(Head(entries)[2])[i]]]
       \o Obligations(Tail(entries))

Offending(manifest, ob) ==
  IF ob.kind = "service" THEN ~ServiceExists(manifest, ob.serviceName)
  ELSE ~StateExists(manifest, ob.serviceName, ob.stateId)

OffenceError(ob) == IF ob.kind = "service" THEN "ServiceNotFound" ELSE "StateNotFound"

PlanObligations(a) == Obligations(ObjectEntries(DesiredServices(a)))

StateObligations(a) == SelectSeq(PlanObligations(a), LAMBDA ob : ob.kind = "state")

\* Every item of a returned plan names an existing service, a state that
\* exists on it, and a non-empty type.
PlanItemsResolved(a, plan) ==
  \A i \in DOMAIN plan :
    /\ ServiceExists(a.manifest, plan[i].serviceName)
    /\ StateExists(a.manifest, plan[i].serviceName, plan[i].stateId)
    /\ plan[i].type # ""

----------------------------------------------------------------------------
(* SpecGraph: buildGraph applied to bounded service declarations *)

MaxGraphServices == 2

MaxRequires == 2

GraphServiceNames == {"a", "a->b"}

RequiredNames == {"c", "b->c"}

ConsumedVars == {"X", "Y"}

Bindings == {[from |-> <<"c", "X">>], [from |-> <<"c", "Y">>], [from |-> <<"plain">>]}

ConsumesMaps ==
  UNION {{[i \in DOMAIN names |-> <<names[i], b[i]>>] : b \in [DOMAIN names -> Bindings]} :
           names \in DistinctSeqUpTo(ConsumedVars, Cardinality(ConsumedVars))}

GraphServiceBodies ==
  {[root |-> "."], [consumes |-> [env |-> << <<"X", [valueFrom |-> "service.endpoint"]>> >>]]}
    \cup {[requires |-> [services |-> r]] : r \in SeqUpTo(RequiredNames, MaxRequires)}
    \cup {[consumes |-> [env |-> c]] : c \in ConsumesMaps}
    \cup {[requires |-> [services |-> <<"c">>],
           consumes |-> [env |-> << <<"X", b>> >>]] : b \in Bindings}

GraphManifests ==
  UNION {{[intents |-> <<>>,
           services |-> [i \in DOMAIN names |-> <<names[i], b[i]>>]] :
            b \in [DOMAIN names -> GraphServiceBodies]} :
          names \in DistinctSeqUpTo(GraphServiceNames, MaxGraphServices)}

InitGraph ==
  /\ pc = "input"
  /\ arg \in {[kind |-> "buildGraph", manifest |-> m] : m \in GraphManifests}
  /\ ret = NoCall
  /\ CliIdle

CallBuildGraph ==
  /\ pc = "input"
  /\ arg.kind = "buildGraph"
  /\ pc' = "done"
  /\ ret' = Return(buildGraph(arg.manifest))
  /\ UNCHANGED <<arg, cliVars, probeVars>>

SpecGraph == InitGraph /\ [][CallBuildGraph]_vars

\* The (from, to, reason) triples the manifest gives rise to before any
\* duplicate is suppressed: one per requires.services entry and one per
\* consumes.env entry whose source has a dot, labelled as buildGraph labels it.
DerivableTriples(manifest) ==
  UNION {
    LET serviceName == manifest.services[i][1]
        service == manifest.services[i][2]
    IN {[from |-> serviceName, to |-> service.requires.services[j], reason |-> "requires"] :
          j \in IF "requires" \in DOMAIN service /\ "services" \in DOMAIN service.requires
                THEN DOMAIN service.requires.services ELSE {}}
       \cup
       {[from |-> serviceName, to |-> service.consumes.env[j][2].from[1],
         reason |-> "consumes " \o service.consumes.env[j][1]] :
          j \in IF "consumes" \in DOMAIN service /\ "env" \in DOMAIN service.consumes
                THEN {k \in DOMAIN service.consumes.env :
                        /\ "from" \in DOMAIN service.consumes.env[k][2]
                        /\ Len(service.consumes.env[k][2].from) > 1}
                ELSE {}}
    : i \in DOMAIN manifest.services}

Occurrences(edges, e) == Cardinality({i \in DOMAIN edges : edges[i] = e})

\* C6: in the edge list buildGraph returns, no (from, to, reason) triple
\* occurs twice and every distinct triple derivable from requires.services
\* and consumes.env occurs exactly once, also for names that contain the
\* characters '-', '>' or ':'.
C6_EveryTripleExactlyOnce ==
  (pc = "done" /\ arg.kind = "buildGraph") =>
    /\ \A i, j \in DOMAIN ret.value : ret.value[i] = ret.value[j] => i = j
    /\ \A e \in DerivableTriples(arg.manifest) : Occurrences(ret.value, e) = 1

\* The edges C7 expects: for each consumes.env entry whose source is
\* <service>.<VAR>, an edge to <service> with reason "consumes <VAR>", the
\* variable named in the binding source.
ExpectedConsumesEdges(manifest) ==
  UNION {
    LET serviceName == manifest.services[i][1]
        service == manifest.services[i][2]
    IN {[from |-> serviceName, to |-> service.consumes.env[j][2].from[1],
         reason |-> "consumes " \o service.consumes.env[j][2].from[2]] :
          j \in IF "consumes" \in DOMAIN service /\ "env" \in DOMAIN service.consumes
                THEN {k \in DOMAIN service.consumes.env :
                        /\ "from" \in DOMAIN service.consumes.env[k][2]
                        /\ Len(service.consumes.env[k][2].from) = 2}
                ELSE {}}
    : i \in DOMAIN manifest.services}

\* C7: the consumes edges of the graph are exactly one edge per consumes.env
\* entry whose binding source is <service>.<VAR>, from the consumer to
\* <service>, with reason "consumes <VAR>" for the VAR of the binding source,
\* also when the consumer's local variable name differs from VAR.
C7_ConsumesEdgeNamesProviderVar ==
  (pc = "done" /\ arg.kind = "buildGraph") =>
    {e \in Range(ret.value) : e.reason # "requires"} = ExpectedConsumesEdges(arg.manifest)

----------------------------------------------------------------------------
(* SpecObserve: observeState applied to bounded plan items and environments *)

ProjectRoot == "/proj"

KnownTypes == {"package.deps", "db.schema", "env.export", "env.inherit", "process.http"}

ObserveConfigs ==
  {[type |-> "package.deps"], [type |-> "package.deps", lockfile |-> "pnpm-lock.yaml"],
   [type |-> "db.schema"], [type |-> "db.schema", source |-> "schema.prisma"],
   [type |-> "env.export"], [type |-> "env.export", keys |-> <<>>],
   [type |-> "env.export", keys |-> <<"API_URL">>],
   [type |-> "env.inherit"], [type |-> "env.inherit", from |-> "api"],
   [type |-> "process.http"], [type |-> "process.http", port |-> "abc"],
   [type |-> "process.http", port |-> "4001"],
   [type |-> "process.http", port |-> "4001", host |-> "db.local"],
   [type |-> "process.http", port |-> "70000"],
   [type |-> "custom.plugin", port |-> "4001"]}

ObserveServices == {[type |-> "node.service"], [root |-> "services/api"]}

\* The items buildPlan produces for a state "s" with the configuration.
ObserveItems ==
  {PlanItem("api", "s", c, [states |-> << <<"s", c>> >>] @@ svc) :
     c \in ObserveConfigs, svc \in ObserveServices}

ObservePaths ==
  {pathResolve(pathResolve(ProjectRoot, r), f) :
     r \in {".", "services/api"},
     f \in {"package-lock.json", "pnpm-lock.yaml", "schema.prisma"}}

FileKinds == {"absent", "dir", "content-1"}

ObserveEnvs ==
  {[files |-> [p \in ObservePaths |-> k], ports |-> o] :
     k \in FileKinds, o \in {{}, {4001}}}

InitObserve ==
  /\ pc = "input"
  /\ arg \in {[kind |-> "observeState", item |-> i, env |-> e] :
                i \in ObserveItems, e \in ObserveEnvs}
  /\ ret = NoCall
  /\ CliIdle

CallObserveState ==
  /\ pc = "input"
  /\ arg.kind = "observeState"
  /\ pc' = "done"
  /\ ret' = observeState(arg.item, ProjectRoot, arg.env)
  /\ UNCHANGED <<arg, cliVars, probeVars>>

SpecObserve == InitObserve /\ [][CallObserveState]_vars

\* C10: observeState never raises: for every plan item it returns an
\* observation whose status is healthy, missing or unknown; an unrecognized
\* type yields unknown, db.schema without a source yields unknown, and
\* db.schema with a configured source whose file is absent yields missing.
C10_ObservationIsTotal ==
  (pc = "done" /\ arg.kind = "observeState") =>
    /\ ~ret.threw
    /\ ret.value.status \in {"healthy", "missing", "unknown"}
    /\ arg.item.type \notin KnownTypes => ret.value.status = "unknown"
    /\ (arg.item.type = "db.schema" /\ "source" \notin DOMAIN arg.item.config)
         => ret.value.status = "unknown"
    /\ (/\ arg.item.type = "db.schema"
        /\ "source" \in DOMAIN arg.item.config
        /\ \A p \in DOMAIN arg.env.files : arg.env.files[p] = "absent")
         => ret.value.status = "missing"

\* What remains of C10 when the call returns: the statuses it names.
C10_WhenItReturns ==
  (pc = "done" /\ arg.kind = "observeState" /\ ~ret.threw) =>
    /\ ret.value.status \in {"healthy", "missing", "unknown"}
    /\ arg.item.type \notin KnownTypes => ret.value.status = "unknown"
    /\ (arg.item.type = "db.schema" /\ "source" \notin DOMAIN arg.item.config)
         => ret.value.status = "unknown"
    /\ (/\ arg.item.type = "db.schema"
        /\ "source" \in DOMAIN arg.item.config
        /\ \A p \in DOMAIN arg.env.files : arg.env.files[p] = "absent")
         => ret.value.status = "missing"

----------------------------------------------------------------------------
(* SpecUpdate: updateState applied to bounded previous states and results *)

MaxResults == 2

ResultPool ==
  {[serviceName |-> svc, stateId |-> st, observation |-> o] :
     svc \in {"api", "web"}, st \in {"deps", "run"},
     o \in {[status |-> "healthy", evidence |-> [keys |-> <<"API_URL">>]],
            [status |-> "unknown", evidence |-> [reason |-> "invalid port"]]}}

PreviousKeys == {"api:deps", "web:run", "old:gone"}

PreviousRecords ==
  {[status |-> "missing", evidence |-> [keys |-> <<>>], lastValidatedAt |-> "T0"]}
    \cup {[status |-> "missing", evidence |-> [keys |-> <<>>], lastValidatedAt |-> "T0",
           lastAppliedAt |-> a] : a \in {Null, "T0"}}

PreviousStates ==
  {[manifestHash |-> Null]}
    \cup UNION {{[manifestHash |-> hashString("old"), observations |-> o] :
                   o \in [keys -> PreviousRecords]} : keys \in SUBSET PreviousKeys}

InitUpdate ==
  /\ pc = "input"
  /\ arg \in {[kind |-> "updateState", existingState |-> e, results |-> r,
               manifestHash |-> hashString("new"), now |-> toISOString(1)] :
                e \in PreviousStates, r \in SeqUpTo(ResultPool, MaxResults)}
  /\ ret = NoCall
  /\ CliIdle

CallUpdateState ==
  /\ pc = "input"
  /\ arg.kind = "updateState"
  /\ pc' = "done"
  /\ ret' = Return(updateState(arg.existingState, arg.results, arg.manifestHash, arg.now))
  /\ UNCHANGED <<arg, cliVars, probeVars>>

SpecUpdate == InitUpdate /\ [][CallUpdateState]_vars

ResultKey(result) == result.serviceName \o ":" \o result.stateId

ResultKeys(results) == {ResultKey(results[i]) : i \in DOMAIN results}

PreviousKeySet(existingState) ==
  IF "observations" \in DOMAIN existingState THEN DOMAIN existingState.observations ELSE {}

\* C1: the observation map updateState returns has exactly the keys
\* "<service>:<state>" of results: a key of previous.observations that is
\* not in results is absent, and no key of results is missing.
C1_KeysAreExactlyTheResults ==
  (pc = "done" /\ arg.kind = "updateState") =>
    DOMAIN ret.value.observations = ResultKeys(arg.results)

\* A previous key that the results do not name was dropped, next to a
\* previous key that they do name.
C1_Witness ==
  /\ pc = "done" /\ arg.kind = "updateState"
  /\ PreviousKeySet(arg.existingState) \ ResultKeys(arg.results) # {}
  /\ PreviousKeySet(arg.existingState) \cap ResultKeys(arg.results) # {}
  /\ PreviousKeySet(arg.existingState) \ DOMAIN ret.value.observations # {}

\* The last result stored under key k.
LastResultFor(results, k) ==
  results[CHOOSE i \in DOMAIN results :
            /\ ResultKey(results[i]) = k
            /\ \A j \in DOMAIN results : ResultKey(results[j]) = k => j <= i]

\* C2: for every key k of the output, lastAppliedAt is that of
\* previous.observations[k] when k existed there and null when k is new;
\* status and evidence are those of the new result and lastValidatedAt is
\* the current time.
C2_OnlyLastAppliedAtIsCarried ==
  (pc = "done" /\ arg.kind = "updateState") =>
    \A k \in DOMAIN ret.value.observations :
      LET out == ret.value.observations[k] IN
      /\ IF k \in PreviousKeySet(arg.existingState)
         THEN LET before == arg.existingState.observations[k] IN
              IF "lastAppliedAt" \in DOMAIN before
              THEN out.lastAppliedAt = before.lastAppliedAt
              ELSE out.lastAppliedAt = Undefined
         ELSE out.lastAppliedAt = Null
      /\ out.status = LastResultFor(arg.results, k).observation.status
      /\ out.evidence = LastResultFor(arg.results, k).observation.evidence
      /\ out.lastValidatedAt = arg.now

\* One key carried a non-null lastAppliedAt forward while its status was
\* overwritten, and another key was new.
C2_Witness ==
  /\ pc = "done" /\ arg.kind = "updateState"
  /\ \E k \in DOMAIN ret.value.observations :
       /\ k \in PreviousKeySet(arg.existingState)
       /\ ret.value.observations[k].lastAppliedAt = "T0"
       /\ ret.value.observations[k].status # arg.existingState.observations[k].status
  /\ \E k \in DOMAIN ret.value.observations :
       /\ k \notin PreviousKeySet(arg.existingState)
       /\ ret.value.observations[k].lastAppliedAt = Null

----------------------------------------------------------------------------
(* Spec: the CLI run against a manifest, an environment and a state file *)

\* The readings of the wall clock are 0..MaxClock; a wall clock is not
\* monotonic, so every invocation may read any of them.
MaxClock == 1

RequestedOnCli == {Null, "slim", "nope"}

LockfilePath == "/proj/services/api/pnpm-lock.yaml"

CliPaths == {LockfilePath}

CliFileKinds == {"absent", "content-1"}

Env == [files |-> files, ports |-> ports]

CliEnvs == {[files |-> f, ports |-> o] : f \in [CliPaths -> CliFileKinds], o \in SUBSET {4001}}

\* Prepare for every manifest document, requested intent and environment of
\* the model, evaluated once.
Prepared ==
  [file \in ManifestTexts \cup {NoFile}, intent \in RequestedOnCli, env \in CliEnvs |->
     Prepare(file, intent, env)]

Init ==
  /\ pc = "idle"
  /\ arg = NoCall
  /\ ret = NoCall
  /\ manifestFile = "doc-base"
  /\ files = [p \in CliPaths |-> "absent"]
  /\ ports = {}
  /\ stateFile = NoStateFile
  /\ last = [cmd |-> "none"]
  /\ prev = [run |-> FALSE]
  /\ ProbeIdle

\* The developer edits, replaces or removes the manifest.
EditManifest ==
  /\ \E raw \in ManifestTexts \cup {NoFile} :
       /\ raw # manifestFile
       /\ manifestFile' = raw
  /\ last' = [cmd |-> "none"]
  /\ UNCHANGED <<pureVars, probeVars, files, ports, stateFile, prev>>

\* A file of the project appears or disappears.
ChangeFile ==
  /\ \E p \in CliPaths, k \in CliFileKinds :
       /\ files[p] # k
       /\ files' = [files EXCEPT ![p] = k]
  /\ last' = [cmd |-> "none"]
  /\ UNCHANGED <<pureVars, probeVars, manifestFile, ports, stateFile, prev>>

\* The service starts or stops listening.
ChangePort ==
  /\ ports' = IF 4001 \in ports THEN ports \ {4001} ELSE ports \cup {4001}
  /\ last' = [cmd |-> "none"]
  /\ UNCHANGED <<pureVars, probeVars, manifestFile, files, stateFile, prev>>

\* nexus status [--intent i]
handleStatus ==
  \E intent \in RequestedOnCli :
    LET prepared == Prepared[manifestFile, intent, Env] IN
    /\ last' =
         IF prepared.threw THEN Failed("status", intent, prepared.error)
         ELSE IF loadState(stateFile).threw
         THEN Failed("status", intent, loadState(stateFile).error)
         ELSE LET state == loadState(stateFile).value IN
              [cmd |-> "status", intent |-> intent, outcome |-> "ok", exitCode |-> 0,
               intentName |-> prepared.value.intentName,
               manifestHash |-> prepared.value.manifestHash,
               stateHash |-> state.manifestHash,
               stateStale |-> StateStale(state, prepared.value.manifestHash),
               summary |-> prepared.value.summary,
               results |-> formatResultJson(prepared.value.results)]
    /\ UNCHANGED <<pureVars, probeVars, manifestFile, files, ports, stateFile, prev>>

\* nexus graph
handleGraph ==
  LET loaded == loadManifest(manifestFile) IN
  /\ last' =
       IF loaded.threw THEN Failed("graph", Null, loaded.error)
       ELSE [cmd |-> "graph", outcome |-> "ok", exitCode |-> 0,
             edges |-> buildGraph(loaded.value.manifest)]
  /\ UNCHANGED <<pureVars, probeVars, manifestFile, files, ports, stateFile, prev>>

\* nexus dev|sync [--intent i] [--json], run when the clock reads now
handleLifecycle ==
  \E intent \in RequestedOnCli :
    LET prepared == Prepared[manifestFile, intent, Env] IN
    \E mode \in {"dev", "sync"}, json \in BOOLEAN, now \in 0..MaxClock :
      IF prepared.threw
      THEN /\ last' = Failed(mode, intent, prepared.error)
           /\ UNCHANGED <<pureVars, probeVars, manifestFile, files, ports, stateFile, prev>>
      ELSE LET saved == SaveState(stateFile, prepared.value.results,
                                   prepared.value.manifestHash, toISOString(now))
               pending == prepared.value.summary.missing + prepared.value.summary.unknown
               inputs == [run |-> TRUE, manifestFile |-> manifestFile,
                          intentName |-> prepared.value.intentName, env |-> Env]
           IN
           /\ stateFile' = saved.file
           /\ prev' = IF saved.threw THEN prev ELSE inputs
           /\ last' =
                IF saved.threw THEN Failed(mode, intent, saved.error) ELSE
                [cmd |-> mode, intent |-> intent, json |-> json, outcome |-> "ok",
                 exitCode |-> IF ~json /\ pending > 0 THEN 1 ELSE 0,
                 intentName |-> prepared.value.intentName,
                 summary |-> prepared.value.summary,
                 results |-> formatResultJson(prepared.value.results),
                 planned |-> Len(prepared.value.plan),
                 repeated |-> (prev = inputs)]
           /\ UNCHANGED <<pureVars, probeVars, manifestFile, files, ports>>

Next ==
  \/ EditManifest
  \/ ChangeFile
  \/ ChangePort
  \/ handleStatus
  \/ handleGraph
  \/ handleLifecycle

Spec == Init /\ [][Next]_vars

\* The same commands run where the state file may have been damaged before
\* the first invocation.
InitDamaged ==
  /\ pc = "idle"
  /\ arg = NoCall
  /\ ret = NoCall
  /\ manifestFile = "doc-base"
  /\ files = [p \in CliPaths |-> "absent"]
  /\ ports = {}
  /\ stateFile \in {NoStateFile, CorruptStateFile}
  /\ last = [cmd |-> "none"]
  /\ prev = [run |-> FALSE]
  /\ ProbeIdle

SpecDamaged == InitDamaged /\ [][Next]_vars

LifecycleCommands == {"dev", "sync"}

PrintedKey(r) == r.service \o ":" \o r.state

\* C3: after a dev/sync run there is one observation per plan item, the
\* "<service>:<state>" keys of the observations are pairwise different, and
\* the persisted observation map has as many entries as the plan has items.
C3_OneEntryPerPlanItem ==
  (last.cmd \in LifecycleCommands /\ last.outcome = "ok") =>
    /\ Len(last.results) = last.planned
    /\ \A i, j \in DOMAIN last.results :
         PrintedKey(last.results[i]) = PrintedKey(last.results[j]) => i = j
    /\ Cardinality(DOMAIN stateFile.json.observations) = last.planned

\* Two persisted states agree in everything but lastValidatedAt.
SameButValidatedAt(a, b) ==
  /\ a.manifestHash = b.manifestHash
  /\ DOMAIN a.observations = DOMAIN b.observations
  /\ \A k \in DOMAIN a.observations :
       /\ a.observations[k].status = b.observations[k].status
       /\ a.observations[k].evidence = b.observations[k].evidence
       /\ ("lastAppliedAt" \in DOMAIN a.observations[k])
            = ("lastAppliedAt" \in DOMAIN b.observations[k])
       /\ "lastAppliedAt" \in DOMAIN a.observations[k] =>
            a.observations[k].lastAppliedAt = b.observations[k].lastAppliedAt

\* C4: a dev/sync run on the manifest bytes, the intent and the observed
\* environment of the run that wrote the state file leaves a state file that
\* equals the previous one in manifestHash, key set and every key's status,
\* evidence and lastAppliedAt (only lastValidatedAt may differ).
C4_RepeatedRunIsIdempotent ==
  [][(/\ last'.cmd \in LifecycleCommands
      /\ last'.outcome = "ok"
      /\ prev.run
      /\ prev.manifestFile = manifestFile
      /\ prev.intentName = last'.intentName
      /\ prev.env = Env)
     => (stateFile.exists /\ SameButValidatedAt(stateFile'.json, stateFile.json))]_vars

\* A second run on unchanged inputs has just rewritten a state file with a
\* healthy and a missing observation, at a later clock reading than some
\* record's.
C4_Witness ==
  /\ last.cmd \in LifecycleCommands /\ last.outcome = "ok" /\ last.repeated
  /\ \E k \in DOMAIN stateFile.json.observations :
       stateFile.json.observations[k].status = "healthy"
  /\ \E k \in DOMAIN stateFile.json.observations :
       /\ stateFile.json.observations[k].status = "missing"
       /\ stateFile.json.observations[k].lastValidatedAt = toISOString(MaxClock)

\* C5: status never writes the state file and reports it stale exactly when
\* a persisted manifestHash exists and differs from the hash of the current
\* manifest; every completed dev/sync, whatever hash was persisted before,
\* observes every plan item and overwrites the state file, whose
\* manifestHash is then the hash of the current manifest.
C5_StaleIsInformational ==
  [][/\ last'.cmd = "status" => stateFile' = stateFile
     /\ (last'.cmd = "status" /\ last'.outcome = "ok") =>
          (last'.stateStale <=>
             (stateFile.exists /\ stateFile.json.manifestHash # hashString(manifestFile)))
     /\ (last'.cmd \in LifecycleCommands /\ last'.outcome = "ok") =>
          /\ stateFile'.exists
          /\ stateFile'.json.manifestHash = hashString(manifestFile)
          /\ Len(last'.results) = last'.planned
          /\ DOMAIN stateFile'.json.observations
               = {PrintedKey(last'.results[i]) : i \in DOMAIN last'.results}
          /\ \A i \in DOMAIN last'.results :
               (\A j \in DOMAIN last'.results :
                  PrintedKey(last'.results[j]) = PrintedKey(last'.results[i]) => j <= i)
               => stateFile'.json.observations[PrintedKey(last'.results[i])].status
                    = last'.results[i].status
    ]_vars

\* status has just reported a stale state: a dev/sync wrote the state file
\* and the manifest was edited afterwards.
C5_Witness ==
  /\ last.cmd = "status" /\ last.outcome = "ok" /\ last.stateStale
  /\ stateFile.exists /\ prev.run /\ prev.manifestFile # manifestFile

\* The results a dev/sync run printed that have the given status.
PrintedWithStatus(status) ==
  Cardinality({i \in DOMAIN last.results : last.results[i].status = status})

FullyCompliant(summary) == summary.missing = 0 /\ summary.unknown = 0

\* The counts of a summary are the counts of the printed results, bucket by
\* bucket, and add up to the number of results.
SummaryCountsResults ==
  /\ last.summary.healthy + last.summary.missing + last.summary.unknown
       = last.summary.total
  /\ last.summary.total = Len(last.results)
  /\ last.summary.healthy = PrintedWithStatus("healthy")
  /\ last.summary.missing = PrintedWithStatus("missing")
  /\ last.summary.unknown = PrintedWithStatus("unknown")

\* C12: after a completed dev/sync run, healthy + missing + unknown = total =
\* the number of results, every result is counted in the bucket of its
\* status, and the exit code is 1 exactly when the plan is not fully
\* compliant (missing > 0 or unknown > 0).
C12_ExitCodeSignalsNonCompliance ==
  (last.cmd \in LifecycleCommands /\ last.outcome = "ok") =>
    /\ SummaryCountsResults
    /\ (last.exitCode = 1) <=> ~FullyCompliant(last.summary)

\* What does hold of C12: the counts are right in every mode, and without
\* --json the exit code is 1 exactly when the plan is not fully compliant;
\* with --json it is 0 whatever the summary.
C12_ExceptJsonMode ==
  (last.cmd \in LifecycleCommands /\ last.outcome = "ok") =>
    /\ SummaryCountsResults
    /\ (last.exitCode = 1) <=> (~last.json /\ ~FullyCompliant(last.summary))

\* C13: starting from no state file, every record of the persisted
\* observation map has lastAppliedAt = null after any sequence of status,
\* graph, dev and sync invocations.
C13_LastAppliedAtStaysNull ==
  stateFile.exists =>
    \A k \in DOMAIN stateFile.json.observations :
      /\ "lastAppliedAt" \in DOMAIN stateFile.json.observations[k]
      /\ stateFile.json.observations[k].lastAppliedAt = Null

\* A dev/sync run on the inputs of the run before it has rewritten the
\* records that run had persisted, so each lastAppliedAt was carried over.
C13_Witness ==
  /\ last.cmd \in LifecycleCommands /\ last.outcome = "ok" /\ last.repeated
  /\ stateFile.exists
  /\ Cardinality(DOMAIN stateFile.json.observations) >= 2
  /\ \A k \in DOMAIN stateFile.json.observations :
       stateFile.json.observations[k].lastValidatedAt = toISOString(0)

\* C14: a dev/sync invocation that ends with an error (of the manifest, the
\* intent, the plan, an observation or the state file) leaves the state file
\* as it was; the state file changes only in an invocation in which
\* loading, intent resolution, planning, every observation and loadState
\* succeeded, and then it is the one document writeState wrote.
C14_FailedRunLeavesStateFile ==
  [][/\ (last'.cmd \in LifecycleCommands /\ last'.outcome # "ok") =>
          stateFile' = stateFile
     /\ stateFile' # stateFile =>
          /\ last'.cmd \in LifecycleCommands /\ last'.outcome = "ok"
          /\ ~Prepared[manifestFile, last'.intent, Env].threw
          /\ ~loadState(stateFile).threw
          /\ \E now \in 0..MaxClock :
               stateFile' =
                 writeState(updateState(loadState(stateFile).value,
                   Prepared[manifestFile, last'.intent, Env].value.results,
                   hashString(manifestFile), toISOString(now)))
    ]_vars

\* A dev/sync run whose plan was built and observed has just failed on a
\* state file that is not JSON.
C14_Witness ==
  /\ last.cmd \in LifecycleCommands /\ last.outcome = "CorruptState"
  /\ stateFile = CorruptStateFile
  /\ ~Prepared[manifestFile, last.intent, Env].threw
  /\ Len(Prepared[manifestFile, last.intent, Env].value.results) > 0

----------------------------------------------------------------------------
(* SpecCheckPort: one TCP probe, statement by statement.                    *)
(* The executor of the promise runs to its end before the event loop        *)
(* delivers any socket event. Afterwards each of the three `once` listeners *)
(* may be called, at most once each and in any order: the model does not    *)
(* rely on socket.destroy() to silence the socket. net.Socket#connect       *)
(* throws ERR_SOCKET_BAD_PORT, before any connection is attempted, for a    *)
(* port outside 0..65535; an exception in the executor rejects the promise. *)

\* The timeout observeState passes to checkPort.
ProbeTimeoutMs == 300

ProbeHosts == {"127.0.0.1", "localhost"}

\* Finite numbers a manifest can give as port.
ProbePorts == {0 - 1, 0, 80, 4001, 65535, 65536, 70000}

LegalPort(port) == port \in 0..65535

InitCheckPort ==
  /\ pc = "checkPort"
  /\ arg \in [host : ProbeHosts, port : ProbePorts, timeoutMs : {ProbeTimeoutMs}]
  /\ ret = NoCall
  /\ CliIdle

\* new Promise(...), new net.Socket(), let settled = false
NewSocket ==
  /\ pc = "checkPort"
  /\ promise' = [state |-> "pending"]
  /\ socket' = [timeout |-> 0, listeners |-> {}, destroyed |-> FALSE]
  /\ settled' = FALSE
  /\ pc' = "setTimeout"
  /\ UNCHANGED <<arg, ret, cliVars, fired, resolveCalls>>

\* socket.setTimeout(timeoutMs)
SetTimeout ==
  /\ pc = "setTimeout"
  /\ socket' = [socket EXCEPT !.timeout = arg.timeoutMs]
  /\ pc' = "onceError"
  /\ UNCHANGED <<arg, ret, cliVars, settled, promise, fired, resolveCalls>>

\* socket.once("error", ...)
OnceError ==
  /\ pc = "onceError"
  /\ socket' = [socket EXCEPT !.listeners = @ \cup {"error"}]
  /\ pc' = "onceTimeout"
  /\ UNCHANGED <<arg, ret, cliVars, settled, promise, fired, resolveCalls>>

\* socket.once("timeout", ...)
OnceTimeout ==
  /\ pc = "onceTimeout"
  /\ socket' = [socket EXCEPT !.listeners = @ \cup {"timeout"}]
  /\ pc' = "connect"
  /\ UNCHANGED <<arg, ret, cliVars, settled, promise, fired, resolveCalls>>

\* socket.connect(port, host, ...): the last statement of the executor.
Connect ==
  /\ pc = "connect"
  /\ socket' = [socket EXCEPT !.listeners = @ \cup {"connect"}]
  /\ IF LegalPort(arg.port)
     THEN /\ pc' = "returned"
          /\ UNCHANGED promise
     ELSE /\ pc' = "threw"
          /\ promise' = [state |-> "rejected", error |-> "ERR_SOCKET_BAD_PORT"]
  /\ UNCHANGED <<arg, ret, cliVars, settled, fired, resolveCalls>>

\* The socket once its `once` listener for event has been called.
Once(event) == [socket EXCEPT !.listeners = @ \ {event}]

\* finish(result), called from a listener that leaves the socket as sock
finish(result, sock) ==
  IF settled
  THEN /\ socket' = sock
       /\ UNCHANGED <<settled, promise, resolveCalls>>
  ELSE /\ settled' = TRUE
       /\ socket' = [sock EXCEPT !.destroyed = TRUE]
       /\ resolveCalls' = resolveCalls + 1
       /\ promise' = IF promise.state = "pending"
                     THEN [state |-> "fulfilled", value |-> result]
                     ELSE promise

\* the connection is established: () => finish(true)
OnConnect ==
  /\ pc = "returned"
  /\ "connect" \in socket.listeners
  /\ fired' = Append(fired, "connect")
  /\ finish(TRUE, Once("connect"))
  /\ UNCHANGED <<pureVars, cliVars>>

\* the connection attempt fails: () => finish(false)
OnError ==
  /\ pc = "returned"
  /\ "error" \in socket.listeners
  /\ fired' = Append(fired, "error")
  /\ finish(FALSE, Once("error"))
  /\ UNCHANGED <<pureVars, cliVars>>

\* the idle timer of the socket expires: () => finish(false)
OnTimeout ==
  /\ pc \in {"returned", "threw"}
  /\ socket.timeout > 0
  /\ "timeout" \in socket.listeners
  /\ fired' = Append(fired, "timeout")
  /\ finish(FALSE, Once("timeout"))
  /\ UNCHANGED <<pureVars, cliVars>>

Executor == NewSocket \/ SetTimeout \/ OnceError \/ OnceTimeout \/ Connect

NextCheckPort ==
  \/ NewSocket
  \/ SetTimeout
  \/ OnceError
  \/ OnceTimeout
  \/ Connect
  \/ OnConnect
  \/ OnError
  \/ OnTimeout

SpecCheckPort == InitCheckPort /\ [][NextCheckPort]_vars

\* The timer expires while a connection attempt keeps the event loop alive.
TimerExpires == pc = "returned" /\ OnTimeout

\* The executor is synchronous code and runs to its end; the timer armed by
\* setTimeout expires unless the probe has ended before.
SpecCheckPortLive ==
  SpecCheckPort /\ WF_vars(Executor) /\ WF_vars(TimerExpires)

Fulfilled == promise.state = "fulfilled"

\* resolve is called at most once, the promise is never rejected, and once
\* fulfilled it holds the boolean the first event decides: true for connect,
\* false for error and for timeout.
FirstEventDecides ==
  /\ resolveCalls <= 1
  /\ promise.state # "rejected"
  /\ settled <=> Fulfilled
  /\ Fulfilled <=> fired # <<>>
  /\ Fulfilled => (promise.value \in BOOLEAN /\ promise.value = (fired[1] = "connect"))

\* C11: under every interleaving of the connect, error and timeout
\* callbacks, checkPort's promise is resolved exactly once with a boolean,
\* decided by the first callback (true only for connect), no later callback
\* changes it, and it is always eventually resolved.
C11_ProbeAlwaysResolves ==
  /\ []FirstEventDecides
  /\ [][Fulfilled => promise' = promise]_vars
  /\ <>Fulfilled

\* What does hold of C11: all of it, for a port in 0..65535.
C11_WithLegalPort ==
  /\ [](LegalPort(arg.port) => FirstEventDecides)
  /\ [][Fulfilled => promise' = promise]_vars
  /\ LegalPort(arg.port) ~> Fulfilled

====
